---- MODULE Spec2Model ----
(***************************************************************************)
(* vtkTexturedSphereSource: the constructor and RequestData, the routine   *)
(* that tessellates a UV sphere into points, normals, texture coordinates  *)
(* and triangles.                                                          *)
(*                                                                         *)
(* Numbers.  A C++ double is a fixed-point integer counting 1/SCALE units  *)
(* (1.0 is SCALE).  An angle is kept as a pair <<n, d>> standing for       *)
(* n*pi/d, so that i*deltaTheta and j*deltaPhi are exact and pi cancels in *)
(* theta/(2*pi) and phi/pi as it does in the source.  sin and cos are      *)
(* computed by range reduction and a truncated Taylor series, so they are  *)
(* exact at 0 and approximate elsewhere, as the library functions are.     *)
(* A value stored in a vtkFloatArray loses precision: it is truncated to   *)
(* a multiple of FloatQuantum.                                             *)
(*                                                                         *)
(* Sequences are 1-based: the source's output index k is k+1 here.         *)
(***************************************************************************)
EXTENDS Integers, Sequences, FiniteSets, TLC

VARIABLES
    arg,                    \* the constructor's argument res, as passed
    Radius,                 \* this->Radius
    ThetaResolution,        \* this->ThetaResolution
    PhiResolution,          \* this->PhiResolution
    OutputPointsPrecision,  \* this->OutputPointsPrecision
    pc,                     \* "constructed", "configured", "points", "polys", "finish", "done"
    i, j,                   \* RequestData's loop counters
    numPts, numPolys,       \* RequestData's locals
    pointsDataType,         \* newPoints' data type
    newPoints, newNormals, newTCoords, newPolys,
    substituted,            \* the vertices (1-based) for which norm = 1.0 was substituted
    output                  \* the vtkPolyData handed back to the pipeline

vars == <<arg, Radius, ThetaResolution, PhiResolution, OutputPointsPrecision,
          pc, i, j, numPts, numPolys, pointsDataType,
          newPoints, newNormals, newTCoords, newPolys, substituted, output>>

config == <<arg, Radius, ThetaResolution, PhiResolution, OutputPointsPrecision>>
locals == <<i, j, numPts, numPolys, pointsDataType,
            newPoints, newNormals, newTCoords, newPolys, substituted>>

(***************************************************************************)
(* Bounds                                                                  *)
(***************************************************************************)
MaxRes == 5

ResInputs == -1 .. MaxRes

(***************************************************************************)
(* Numbers                                                                 *)
(***************************************************************************)
SCALE == 10000
PI_FP == 31416
FloatQuantum == 8

SINGLE_PRECISION == 0
DOUBLE_PRECISION == 1
PrecisionInputs == 0 .. 2

RadiusInputs == {0, SCALE \div 2, SCALE}

Abs(a) == IF a < 0 THEN -a ELSE a

\* C++ division of doubles, truncating toward zero on the fixed-point grid
TruncDiv(a, b) ==
    IF (a < 0) = (b < 0) THEN Abs(a) \div Abs(b) ELSE -(Abs(a) \div Abs(b))

Mul(a, b) == TruncDiv(a * b, SCALE)
Div(a, b) == TruncDiv(a * SCALE, b)

\* a double stored into a float array
StoreFloat(v) == TruncDiv(v, FloatQuantum) * FloatQuantum

\* the series of sin and cos on [0, pi/4]
SinSeries(x) ==
    LET x2 == Mul(x, x)
        p3 == Mul(x2, x)
        p5 == Mul(p3, x2)
        p7 == Mul(p5, x2)
    IN  x - (p3 \div 6) + (p5 \div 120) - (p7 \div 5040)

CosSeries(x) ==
    LET x2 == Mul(x, x)
        p4 == Mul(x2, x2)
        p6 == Mul(p4, x2)
        p8 == Mul(p6, x2)
    IN  SCALE - (x2 \div 2) + (p4 \div 24) - (p6 \div 720) + (p8 \div 40320)

Radians(n, d) == (PI_FP * n) \div d

\* sin(n*pi/d), n >= 0, d > 0
RECURSIVE SinPi(_, _)
SinPi(n, d) ==
    IF n >= 2 * d THEN SinPi(n - 2 * d, d)
    ELSE IF n > d THEN -SinPi(n - d, d)
    ELSE IF 2 * n > d THEN SinPi(d - n, d)
    ELSE IF 4 * n > d THEN CosSeries(Radians(d - 2 * n, 2 * d))
    ELSE SinSeries(Radians(n, d))

sin(a) == SinPi(a[1], a[2])
cos(a) == SinPi(2 * a[1] + a[2], 2 * a[2])

\* floor of the square root
RECURSIVE SqrtIter(_, _)
SqrtIter(s, r) ==
    LET next == (r + s \div r) \div 2
    IN  IF next >= r THEN r ELSE SqrtIter(s, next)

Sqrt(s) == IF s = 0 THEN 0 ELSE SqrtIter(s, s)

\* vtkMath::Norm
Norm(x) == Sqrt(x[1] * x[1] + x[2] * x[2] + x[3] * x[3])

(***************************************************************************)
(* The constructor                                                         *)
(***************************************************************************)

\* variant: the floor of the clamp one too low
ClampRes_Low(res) == IF res < 3 THEN 3 ELSE res

ClampRes(res) == IF res < 4 THEN 4 ELSE res

EmptyOutput ==
    [Points |-> <<>>, PointsDataType |-> "none",
     Normals |-> <<>>, NormalsDataType |-> "none", NormalsComponents |-> 0,
     TCoords |-> <<>>, TCoordsDataType |-> "none", TCoordsComponents |-> 0,
     Polys |-> <<>>]

LocalsCleared ==
    /\ i = 0 /\ j = 0 /\ numPts = 0 /\ numPolys = 0
    /\ pointsDataType = "none"
    /\ newPoints = <<>> /\ newNormals = <<>> /\ newTCoords = <<>> /\ newPolys = <<>>
    /\ substituted = {}

Init ==
    /\ arg \in ResInputs
    /\ Radius = SCALE \div 2
    /\ ThetaResolution = ClampRes(arg)
    /\ PhiResolution = ClampRes(arg)
    /\ OutputPointsPrecision = SINGLE_PRECISION
    /\ pc = "constructed"
    /\ LocalsCleared
    /\ output = EmptyOutput

(***************************************************************************)
(* The setters of the configuration                                        *)
(***************************************************************************)
Configurable == pc \in {"constructed", "configured"}

SetThetaResolution(r) ==
    /\ Configurable
    /\ ThetaResolution' = ClampRes(r)
    /\ pc' = "configured"
    /\ UNCHANGED <<arg, Radius, PhiResolution, OutputPointsPrecision, locals, output>>

SetPhiResolution(r) ==
    /\ Configurable
    /\ PhiResolution' = ClampRes(r)
    /\ pc' = "configured"
    /\ UNCHANGED <<arg, Radius, ThetaResolution, OutputPointsPrecision, locals, output>>

SetRadius(r) ==
    /\ Configurable
    /\ Radius' = r
    /\ pc' = "configured"
    /\ UNCHANGED <<arg, ThetaResolution, PhiResolution, OutputPointsPrecision, locals, output>>

SetOutputPointsPrecision(p) ==
    /\ Configurable
    /\ OutputPointsPrecision' = p
    /\ pc' = "configured"
    /\ UNCHANGED <<arg, Radius, ThetaResolution, PhiResolution, locals, output>>

(***************************************************************************)
(* RequestData                                                             *)
(***************************************************************************)
NumPts == (PhiResolution + 1) * (ThetaResolution + 1)
NumPolys == PhiResolution * 2 * ThetaResolution

\* variant: every precision but SINGLE_PRECISION gives double
PointsDataType_NotSingle(precision) ==
    IF precision = SINGLE_PRECISION THEN "VTK_FLOAT" ELSE "VTK_DOUBLE"

PointsDataType(precision) ==
    IF precision = DOUBLE_PRECISION THEN "VTK_DOUBLE" ELSE "VTK_FLOAT"

\* allocation: lines 70-96
RequestDataBegin ==
    /\ pc \in {"constructed", "configured", "done"}
    /\ numPts' = NumPts
    /\ numPolys' = NumPolys
    /\ pointsDataType' = PointsDataType(OutputPointsPrecision)
    /\ newPoints' = <<>> /\ newNormals' = <<>> /\ newTCoords' = <<>> /\ newPolys' = <<>>
    /\ substituted' = {}
    /\ i' = 0 /\ j' = 0
    /\ pc' = "points"
    /\ UNCHANGED <<config, output>>

deltaPhi == <<1, PhiResolution>>
deltaTheta == <<2, ThetaResolution>>

\* i * delta, for an angle delta
Times(k, delta) == <<k * delta[1], delta[2]>>

\* variant: the seam column is left out
ThetaLoopCond_Strict(ii) == ii < ThetaResolution

ThetaLoopCond(ii) == ii <= ThetaResolution

\* variant: the inner loop bounded by the other resolution
PhiLoopCond_Theta(jj) == jj <= ThetaResolution

PhiLoopCond(jj) == jj <= PhiResolution

\* variant: theta / pi
TCoordU_Pi(theta) == TruncDiv(theta[1] * SCALE, theta[2])

\* tc[0] = theta / (2.0 * pi)
TCoordU(theta) == TruncDiv(theta[1] * SCALE, 2 * theta[2])
\* tc[1] = 1.0 - phi / pi
TCoordV(phi) == SCALE - TruncDiv(phi[1] * SCALE, phi[2])

\* variant: the sphere oriented along the y-axis
PointAt_YAxis(theta, phi) ==
    LET radius == Mul(Radius, sin(phi))
    IN  <<Mul(radius, cos(theta)), Mul(Radius, cos(phi)), Mul(radius, sin(theta))>>

\* x[0..2] of lines 119-125
PointAt(theta, phi) ==
    LET radius == Mul(Radius, sin(phi))
    IN  <<Mul(radius, cos(theta)), Mul(radius, sin(theta)), Mul(Radius, cos(phi))>>

\* variant: the divisor 1.0 for every vertex
NormDivisor_One(norm) == IF norm = 0 THEN SCALE ELSE SCALE

\* lines 128-131
NormDivisor(norm) == IF norm = 0 THEN SCALE ELSE norm

\* lines 132-134
Normalized(x, norm) == <<Div(x[1], norm), Div(x[2], norm), Div(x[3], norm)>>

InsertNextPoint(x) ==
    IF pointsDataType = "VTK_FLOAT"
    THEN <<StoreFloat(x[1]), StoreFloat(x[2]), StoreFloat(x[3])>>
    ELSE x

InsertNextTuple3(x) == <<StoreFloat(x[1]), StoreFloat(x[2]), StoreFloat(x[3])>>
InsertNextTuple2(tc) == <<StoreFloat(tc[1]), StoreFloat(tc[2])>>

\* one pass of the inner loop body, lines 117-144, with both loops' control
PointStep ==
    /\ pc = "points"
    /\ IF ~ThetaLoopCond(i)
       THEN /\ pc' = "polys"
            /\ i' = 0 /\ j' = 0
            /\ UNCHANGED <<newPoints, newNormals, newTCoords, substituted>>
       ELSE IF ~PhiLoopCond(j)
       THEN /\ i' = i + 1 /\ j' = 0
            /\ pc' = pc
            /\ UNCHANGED <<newPoints, newNormals, newTCoords, substituted>>
       ELSE LET theta == Times(i, deltaTheta)
                phi == Times(j, deltaPhi)
                x == PointAt(theta, phi)
                norm == Norm(x)
                tc == <<TCoordU(theta), TCoordV(phi)>>
            IN  /\ newPoints' = Append(newPoints, InsertNextPoint(x))
                /\ substituted' = IF norm = 0
                                  THEN substituted \cup {Len(newPoints) + 1}
                                  ELSE substituted
                /\ newNormals' = Append(newNormals,
                                   InsertNextTuple3(Normalized(x, NormDivisor(norm))))
                /\ newTCoords' = Append(newTCoords, InsertNextTuple2(tc))
                /\ j' = j + 1 /\ i' = i
                /\ pc' = pc
    /\ UNCHANGED <<config, numPts, numPolys, pointsDataType, newPolys, output>>

PolyThetaLoopCond(ii) == ii < ThetaResolution

\* variant: one latitude band too many
PolyPhiLoopCond_Inclusive(jj) == jj <= PhiResolution

PolyPhiLoopCond(jj) == jj < PhiResolution

\* variant: the third index without its + 1
FirstTriangle_NoPlusOne(ii, jj) ==
    LET pts0 == (PhiResolution + 1) * ii + jj
    IN  <<pts0, pts0 + 1, (PhiResolution + 1) * (ii + 1) + jj>>

\* lines 154-156
FirstTriangle(ii, jj) ==
    LET pts0 == (PhiResolution + 1) * ii + jj
    IN  <<pts0, pts0 + 1, ((PhiResolution + 1) * (ii + 1) + jj) + 1>>

\* variant: the second triangle keeps the last two indices of the first
SecondTriangle_LastTwo(pts) ==
    LET pts2 == pts[3] - 1
    IN  <<pts[2], pts[3], pts2>>

\* lines 159-160: pts[1] = pts[2]; pts[2] = pts[1] - 1
SecondTriangle(pts) ==
    LET pts1 == pts[3]
        pts2 == pts1 - 1
    IN  <<pts[1], pts1, pts2>>

\* one pass of the connectivity loop body, lines 152-162, with both loops' control
PolyStep ==
    /\ pc = "polys"
    /\ IF ~PolyThetaLoopCond(i)
       THEN /\ pc' = "finish"
            /\ UNCHANGED <<i, j, newPolys>>
       ELSE IF ~PolyPhiLoopCond(j)
       THEN /\ i' = i + 1 /\ j' = 0
            /\ pc' = pc
            /\ UNCHANGED newPolys
       ELSE LET pts == FirstTriangle(i, j)
            IN  /\ newPolys' = newPolys \o <<pts, SecondTriangle(pts)>>
                /\ j' = j + 1 /\ i' = i
                /\ pc' = pc
    /\ UNCHANGED <<config, numPts, numPolys, pointsDataType,
                   newPoints, newNormals, newTCoords, substituted, output>>

\* lines 167-179
RequestDataEnd ==
    /\ pc = "finish"
    /\ output' = [Points |-> newPoints, PointsDataType |-> pointsDataType,
                  Normals |-> newNormals, NormalsDataType |-> "VTK_FLOAT",
                  NormalsComponents |-> 3,
                  TCoords |-> newTCoords, TCoordsDataType |-> "VTK_FLOAT",
                  TCoordsComponents |-> 2,
                  Polys |-> newPolys]
    /\ pc' = "done"
    /\ UNCHANGED <<config, locals>>

Next ==
    \/ \E r \in ResInputs : SetThetaResolution(r)
    \/ \E r \in ResInputs : SetPhiResolution(r)
    \/ \E r \in RadiusInputs : SetRadius(r)
    \/ \E p \in PrecisionInputs : SetOutputPointsPrecision(p)
    \/ RequestDataBegin
    \/ PointStep
    \/ PolyStep
    \/ RequestDataEnd

Spec == Init /\ [][Next]_vars

(***************************************************************************)
(* Properties                                                              *)
(***************************************************************************)
\* the column i and the row j of the vertex stored at (1-based) position k
ColOf(k) == (k - 1) \div (PhiResolution + 1)
RowOf(k) == (k - 1) % (PhiResolution + 1)
\* the cell (i, j) of the c-th (1-based) pair of triangles
CellI(c) == (c - 1) \div PhiResolution
CellJ(c) == (c - 1) % PhiResolution
BaseOf(ii, jj) == (PhiResolution + 1) * ii + jj
Cells == 1 .. (Len(newPolys) \div 2)
SetOf(t) == {t[1], t[2], t[3]}
NormSq(n) == n[1] * n[1] + n[2] * n[2] + n[3] * n[3]
UnitTolerance == (SCALE * SCALE) \div 100
IsUnit(n) == Abs(NormSq(n) - SCALE * SCALE) <= UnitTolerance

\* C1: when RequestData has completed, the output holds exactly
\* (PhiResolution+1)*(ThetaResolution+1) points, and as many normals and
\* texture coordinates.
C1_PointCounts ==
    pc = "done" =>
        /\ Len(output.Points) = (PhiResolution + 1) * (ThetaResolution + 1)
        /\ Len(output.Normals) = Len(output.Points)
        /\ Len(output.TCoords) = Len(output.Points)

C1_Witness ==
    /\ pc = "done"
    /\ ThetaResolution # PhiResolution
    /\ Len(output.Points) >= 25

\* C2: RequestData emits exactly 2 * PhiResolution * ThetaResolution
\* triangles, two for each cell (i, j) with 0 <= i < ThetaResolution and
\* 0 <= j < PhiResolution.
C2_TriangleCount ==
    pc = "done" =>
        /\ Len(output.Polys) = 2 * PhiResolution * ThetaResolution
        /\ \A ii \in 0 .. ThetaResolution - 1 : \A jj \in 0 .. PhiResolution - 1 :
              Cardinality({k \in 1 .. Len(output.Polys) :
                             output.Polys[k][1] = BaseOf(ii, jj)}) = 2
        /\ \A k \in 1 .. Len(output.Polys) :
              \E ii \in 0 .. ThetaResolution - 1 : \E jj \in 0 .. PhiResolution - 1 :
                 output.Polys[k][1] = BaseOf(ii, jj)

C2_Witness ==
    /\ pc = "done"
    /\ ThetaResolution # PhiResolution
    /\ Len(output.Polys) >= 32

\* C3 as stated: for every cell the first triangle is
\* (base, base+1, base+PhiResolution+2) and the second triangle consists of
\* base+1, base+PhiResolution+2 and base+PhiResolution+1.
C3_Original ==
    \A c \in Cells :
        LET base == BaseOf(CellI(c), CellJ(c))
        IN  /\ newPolys[2 * c - 1] = <<base, base + 1, base + PhiResolution + 2>>
            /\ SetOf(newPolys[2 * c]) =
                  {base + 1, base + PhiResolution + 2, base + PhiResolution + 1}

\* C3 amended: for every cell the first triangle is
\* (base, base+1, base+PhiResolution+2) and the second triangle is
\* (base, base+PhiResolution+2, base+PhiResolution+1): it keeps the first
\* and the last index of the first triangle.
C3_Triangles ==
    \A c \in Cells :
        LET base == BaseOf(CellI(c), CellJ(c))
        IN  /\ newPolys[2 * c - 1] = <<base, base + 1, base + PhiResolution + 2>>
            /\ newPolys[2 * c] =
                  <<base, base + PhiResolution + 2, base + PhiResolution + 1>>

C3_Witness ==
    /\ pc = "done"
    /\ Len(newPolys) = 2 * PhiResolution * ThetaResolution
    /\ newPolys[2] = <<0, PhiResolution + 2, PhiResolution + 1>>
    /\ output.Polys = newPolys

\* C4: the constructor leaves ThetaResolution = PhiResolution = max(res, 4),
\* so both are at least 4, and no step of RequestData changes either.
C4_Clamped ==
    [][/\ pc = "constructed" =>
            /\ ThetaResolution = (IF arg > 4 THEN arg ELSE 4)
            /\ PhiResolution = ThetaResolution
            /\ ThetaResolution >= 4
       /\ (pc \in {"points", "polys", "finish"} \/ pc' = "points") =>
            /\ ThetaResolution' = ThetaResolution
            /\ PhiResolution' = PhiResolution]_vars

C4_Witness ==
    /\ pc = "done"
    /\ arg < 4
    /\ ThetaResolution = 4 /\ PhiResolution = 4
    /\ Len(output.Points) = 25

\* C5 as stated: u is strictly increasing in i and every generated u is
\* below 1.
C5_Original ==
    pc = "done" =>
        \A k \in 1 .. Len(output.TCoords) :
            /\ output.TCoords[k][1] >= 0
            /\ output.TCoords[k][1] < SCALE
            /\ \A m \in 1 .. Len(output.TCoords) :
                  ColOf(k) < ColOf(m) => output.TCoords[k][1] < output.TCoords[m][1]

\* C5 amended: u is strictly increasing in i and lies in the closed
\* interval [0, 1]: it is 0 in column 0 and 1 in the seam column
\* i = ThetaResolution, and below 1 in every other column.
C5_URange ==
    pc = "done" =>
        \A k \in 1 .. Len(output.TCoords) :
            /\ output.TCoords[k][1] >= 0
            /\ output.TCoords[k][1] <= SCALE
            /\ (output.TCoords[k][1] = 0) = (ColOf(k) = 0)
            /\ (output.TCoords[k][1] = SCALE) = (ColOf(k) = ThetaResolution)
            /\ \A m \in 1 .. Len(output.TCoords) :
                  /\ ColOf(k) < ColOf(m) => output.TCoords[k][1] < output.TCoords[m][1]
                  /\ ColOf(k) = ColOf(m) => output.TCoords[k][1] = output.TCoords[m][1]

C5_Witness ==
    /\ pc = "done"
    /\ Len(output.TCoords) = (PhiResolution + 1) * (ThetaResolution + 1)
    /\ output.TCoords[Len(output.TCoords)][1] = SCALE
    /\ output.TCoords[1][1] = 0

\* C6 as stated: for a positive radius every normal has unit length except
\* those of the row j = 0, which are the zero vector because the
\* substitution is taken there.
C6_Original ==
    Radius > 0 =>
        \A k \in 1 .. Len(newNormals) :
            IF RowOf(k) = 0
            THEN newNormals[k] = <<0, 0, 0>> /\ k \in substituted
            ELSE IsUnit(newNormals[k])

\* C6 amended: for a positive radius every normal has unit length, those of
\* the row j = 0 included, which are (0, 0, 1); the substitution is taken
\* for no vertex.  It is taken only when Radius = 0, and then for every
\* vertex, whose normal is the zero vector.
C6_Normals ==
    /\ Radius > 0 =>
          /\ substituted = {}
          /\ \A k \in 1 .. Len(newNormals) :
                /\ IsUnit(newNormals[k])
                /\ RowOf(k) = 0 => newNormals[k] = <<0, 0, SCALE>>
    /\ Radius = 0 =>
          /\ substituted = 1 .. Len(newNormals)
          /\ \A k \in 1 .. Len(newNormals) : newNormals[k] = <<0, 0, 0>>

C6_Witness ==
    /\ pc = "done"
    /\ Radius = SCALE \div 2
    /\ ThetaResolution # PhiResolution
    /\ Len(output.Normals) = (PhiResolution + 1) * (ThetaResolution + 1)
    /\ output.Normals[1] = <<0, 0, SCALE>>
    /\ output.Normals = newNormals

C6_WitnessZeroRadius ==
    /\ pc = "done"
    /\ Radius = 0
    /\ substituted = 1 .. (PhiResolution + 1) * (ThetaResolution + 1)

\* C7: with Radius = 1.0 and both resolutions 4, RequestData yields 25
\* points and 32 triangles, the first vertex is the point (0, 0, 1) with
\* normal (0, 0, 1), and the substitution is not taken for it.
C7_Scenario ==
    (pc = "done" /\ Radius = SCALE /\ ThetaResolution = 4 /\ PhiResolution = 4) =>
        /\ Len(output.Points) = 25
        /\ Len(output.Polys) = 32
        /\ output.Points[1] = <<0, 0, SCALE>>
        /\ output.Normals[1] = <<0, 0, SCALE>>
        /\ 1 \notin substituted

C7_Witness ==
    /\ pc = "done" /\ Radius = SCALE /\ ThetaResolution = 4 /\ PhiResolution = 4
    /\ Len(output.Normals) = 25

\* C8: the points are stored as double exactly when OutputPointsPrecision
\* is DOUBLE_PRECISION and as float for every other value; normals and
\* texture coordinates are float arrays of 3 and 2 components.
C8_Precision ==
    pc = "done" =>
        /\ (output.PointsDataType = "VTK_DOUBLE") = (OutputPointsPrecision = DOUBLE_PRECISION)
        /\ (output.PointsDataType = "VTK_FLOAT") = (OutputPointsPrecision # DOUBLE_PRECISION)
        /\ output.NormalsDataType = "VTK_FLOAT" /\ output.NormalsComponents = 3
        /\ output.TCoordsDataType = "VTK_FLOAT" /\ output.TCoordsComponents = 2
        /\ \A k \in 1 .. Len(output.Normals) : Len(output.Normals[k]) = 3
        /\ \A k \in 1 .. Len(output.TCoords) : Len(output.TCoords[k]) = 2

C8_Witness ==
    /\ pc = "done"
    /\ OutputPointsPrecision \notin {SINGLE_PRECISION, DOUBLE_PRECISION}
    /\ output.PointsDataType = "VTK_FLOAT"

C8_WitnessDouble ==
    /\ pc = "done"
    /\ OutputPointsPrecision = DOUBLE_PRECISION
    /\ output.PointsDataType = "VTK_DOUBLE"

\* C9: the point, the normal and the texture coordinate computed for
\* (i, j) all sit at output index (PhiResolution+1)*i + j, the index the
\* connectivity loop uses as base of the cell (i, j).
C9_ParallelIndex ==
    /\ Len(newNormals) = Len(newPoints)
    /\ Len(newTCoords) = Len(newPoints)
    /\ pc = "done" =>
          /\ \A ii \in 0 .. ThetaResolution : \A jj \in 0 .. PhiResolution :
                LET theta == Times(ii, deltaTheta)
                    phi == Times(jj, deltaPhi)
                    x == PointAt(theta, phi)
                    k == (PhiResolution + 1) * ii + jj + 1
                IN  /\ k \in DOMAIN output.Points
                    /\ k \in DOMAIN output.Normals
                    /\ k \in DOMAIN output.TCoords
                    /\ output.Points[k] = InsertNextPoint(x)
                    /\ output.Normals[k] =
                          InsertNextTuple3(Normalized(x, NormDivisor(Norm(x))))
                    /\ output.TCoords[k] =
                          InsertNextTuple2(<<TCoordU(theta), TCoordV(phi)>>)
          /\ \A c \in 1 .. (Len(output.Polys) \div 2) :
                output.Polys[2 * c - 1][1] = (PhiResolution + 1) * CellI(c) + CellJ(c)

C9_Witness ==
    /\ pc = "done"
    /\ ThetaResolution # PhiResolution
    /\ Radius > 0
    /\ Len(newPoints) = (PhiResolution + 1) * (ThetaResolution + 1)
    /\ newTCoords[Len(newTCoords)] = <<SCALE, 0>>

\* C10: every index of every emitted triangle references a generated
\* point, the three indices of a triangle are pairwise distinct, and every
\* generated point is referenced by at least one triangle.
C10_Indices ==
    pc = "done" =>
        /\ \A k \in 1 .. Len(output.Polys) :
              /\ \A n \in 1 .. 3 :
                    /\ output.Polys[k][n] >= 0
                    /\ output.Polys[k][n] <= (PhiResolution + 1) * (ThetaResolution + 1) - 1
                    /\ output.Polys[k][n] + 1 \in DOMAIN output.Points
              /\ Cardinality(SetOf(output.Polys[k])) = 3
        /\ \A p \in 0 .. Len(output.Points) - 1 :
              \E k \in 1 .. Len(output.Polys) : p \in SetOf(output.Polys[k])

C10_Witness ==
    /\ pc = "done"
    /\ Len(output.Polys) > 0
    /\ \E k \in 1 .. Len(output.Polys) :
          output.Polys[k][3] = Len(output.Points) - 1
====
